---------------------------- MODULE Spec2Model ----------------------------
(***************************************************************************)
(* Model of the Apps Script back end (src/backend.js): the doGet           *)
(* dispatcher, the template lookup, the completion call, the three         *)
(* delivery handlers and the two renderers (convertMarkdownToHTML and      *)
(* addStyledContent).                                                      *)
(*                                                                         *)
(* Strings are sequences of one-character strings.  In an HTML string the  *)
(* pieces of markup the code itself emits ("<ol>", "</li>", ...) are       *)
(* single elements longer than one character, so that markup written by    *)
(* the code stays distinguishable from characters copied from the input.   *)
(***************************************************************************)
EXTENDS Integers, Sequences, FiniteSets, TLC

\* Longest provider text explored by the renderer specification.
MaxTextLen == 5

\* Longest provider text explored by the escaping specification.
MaxEscapeLen == 4

\* Longest provider text explored by the dispatcher specification.
MaxReplyLen == 2

\* The JavaScript values undefined and null (neither is a string).
Undefined == <<"undefined">>
Null == <<"null">>

-----------------------------------------------------------------------------
(* Strings *)

NL == "\n"

Alphabet == {NL, " ", "1", ".", "-", ":", "a"}

Digits == {"0", "1", "2", "3", "4", "5", "6", "7", "8", "9"}

WhiteSpace == {" ", NL, "\t", "\r"}

\* All strings over S of length at most n.
StringsUpTo(S, n) == UNION {[1..k -> S] : k \in 0..n}

RECURSIVE TrimStart(_)
TrimStart(s) ==
    IF s # <<>> /\ Head(s) \in WhiteSpace THEN TrimStart(Tail(s)) ELSE s

RECURSIVE TrimEnd(_)
TrimEnd(s) ==
    IF s # <<>> /\ s[Len(s)] \in WhiteSpace
    THEN TrimEnd(SubSeq(s, 1, Len(s) - 1))
    ELSE s

\* String.prototype.trim
Trim(s) == TrimEnd(TrimStart(s))

\* text.split('\n'): the pieces between the line breaks ("" gives [""]).
RECURSIVE SplitFrom(_, _, _)
SplitFrom(s, cur, acc) ==
    IF s = <<>> THEN Append(acc, cur)
    ELSE IF Head(s) = NL THEN SplitFrom(Tail(s), <<>>, Append(acc, cur))
    ELSE SplitFrom(Tail(s), Append(cur, Head(s)), acc)

Split(text) == SplitFrom(text, <<>>, <<>>)

\* str.replaceAll(c, rep) / str.replace(/c/g, rep) for a one-character c.
RECURSIVE ReplaceAll(_, _, _)
ReplaceAll(s, c, rep) ==
    IF s = <<>> THEN <<>>
    ELSE (IF Head(s) = c THEN rep ELSE <<Head(s)>>) \o ReplaceAll(Tail(s), c, rep)

UpperOf(c) ==
    CASE c = "a" -> "A" [] c = "d" -> "D" [] c = "e" -> "E" [] c = "f" -> "F"
      [] c = "h" -> "H" [] c = "i" -> "I" [] c = "l" -> "L" [] c = "m" -> "M"
      [] c = "p" -> "P" [] c = "s" -> "S" [] c = "t" -> "T" [] c = "x" -> "X"
      [] OTHER -> c

LowerOf(c) ==
    CASE c = "A" -> "a" [] c = "D" -> "d" [] c = "E" -> "e" [] c = "F" -> "f"
      [] c = "H" -> "h" [] c = "I" -> "i" [] c = "L" -> "l" [] c = "M" -> "m"
      [] c = "P" -> "p" [] c = "S" -> "s" [] c = "T" -> "t" [] c = "X" -> "x"
      [] OTHER -> c

toUpperCase(s) == [i \in 1..Len(s) |-> UpperOf(s[i])]

toLowerCase(s) == [i \in 1..Len(s) |-> LowerOf(s[i])]

-----------------------------------------------------------------------------
(* Line tests used by both renderers *)

endsWithColon(line) == line # <<>> /\ line[Len(line)] = ":"

\* Number of leading digits of a line.
RECURSIVE DigitPrefix(_)
DigitPrefix(line) ==
    IF line # <<>> /\ Head(line) \in Digits THEN 1 + DigitPrefix(Tail(line)) ELSE 0

\* /^\d+\./.test(line)
isNumbered(line) ==
    LET n == DigitPrefix(line)
    IN  n >= 1 /\ Len(line) > n /\ line[n + 1] = "."

\* line.replace(/^\d+\.\s*/, '')
stripNumber(line) ==
    IF isNumbered(line)
    THEN TrimStart(SubSeq(line, DigitPrefix(line) + 2, Len(line)))
    ELSE line

startsWithDash(line) == line # <<>> /\ Head(line) = "-"

\* line.substring(1).trim()
stripDash(line) == Trim(Tail(line))


-----------------------------------------------------------------------------
(* escapeHtml: five replacements, applied in this order *)

\* Variant: the '&' replacement runs last, over the entities already written.
escapeHtmlAmpLast(text) ==
    LET b == ReplaceAll(text, "<", <<"&", "l", "t", ";">>)
        c == ReplaceAll(b, ">", <<"&", "g", "t", ";">>)
        d == ReplaceAll(c, "\"", <<"&", "q", "u", "o", "t", ";">>)
        f == ReplaceAll(d, "'", <<"&", "#", "0", "3", "9", ";">>)
    IN  ReplaceAll(f, "&", <<"&", "a", "m", "p", ";">>)

escapeHtml(text) ==
    LET a == ReplaceAll(text, "&", <<"&", "a", "m", "p", ";">>)
        b == ReplaceAll(a, "<", <<"&", "l", "t", ";">>)
        c == ReplaceAll(b, ">", <<"&", "g", "t", ";">>)
        d == ReplaceAll(c, "\"", <<"&", "q", "u", "o", "t", ";">>)
    IN  ReplaceAll(d, "'", <<"&", "#", "0", "3", "9", ";">>)

-----------------------------------------------------------------------------
(* convertMarkdownToHTML *)

\* The value of new Date().toLocaleString(), which the model does not look into.
Timestamp == "timestamp"

Indent == "    "

\* Variant: a split that accepts any value.
splitNeverThrows(text) == FALSE

\* text.split('\n') throws a TypeError when text is not a string.
splitThrows(text) == text \in {Undefined, Null}

\* Variant: the closing tag does not follow listType.
closeListAlwaysUl(listType) == <<"</ul>">>

\* listType === 'ol' ? '</ol>' : '</ul>'
closeList(listType) == IF listType = "ol" THEN <<"</ol>">> ELSE <<"</ul>">>

htmlHeader(agentName, extraContext) ==
    <<NL, "<div class=\"agent-response\">", NL, Indent, "<h1>">>
        \o agentName \o <<" ", "-", " ">> \o extraContext \o <<"</h1>", NL>>

htmlFooter ==
    <<NL, Indent, "<div class=\"footer\">", NL,
      Indent, Indent, "<p>", "Generated by Strategic Advisor System", "</p>", NL,
      Indent, Indent, "<p>", Timestamp, "</p>", NL,
      Indent, "</div>", NL, "</div>", NL>>

\* One iteration of lines.forEach in convertMarkdownToHTML; st holds the
\* closure variables html, inList and listType.
htmlLine(st, rawLine) ==
    LET line == Trim(rawLine)
        closing == IF st.inList THEN closeList(st.listType) ELSE <<>>
    IN  IF line = <<>>
        THEN [st EXCEPT !.html = @ \o closing, !.inList = FALSE]
        ELSE IF endsWithColon(line)
        THEN [st EXCEPT !.html = @ \o closing \o <<"<h2>">> \o escapeHtml(line)
                                     \o <<"</h2>", NL>>,
                        !.inList = FALSE]
        ELSE IF isNumbered(line)
        THEN [html |-> st.html
                        \o (IF ~st.inList \/ st.listType # "ol"
                            THEN closing \o <<"<ol>", NL>> ELSE <<>>)
                        \o <<"<li>">> \o escapeHtml(stripNumber(line))
                        \o <<"</li>", NL>>,
              inList |-> TRUE,
              listType |-> "ol"]
        ELSE IF startsWithDash(line)
        THEN [html |-> st.html
                        \o (IF ~st.inList \/ st.listType # "ul"
                            THEN closing \o <<"<ul>", NL>> ELSE <<>>)
                        \o <<"<li>">> \o escapeHtml(stripDash(line))
                        \o <<"</li>", NL>>,
              inList |-> TRUE,
              listType |-> "ul"]
        ELSE [st EXCEPT !.html = @ \o closing \o <<"<p>">> \o escapeHtml(line)
                                     \o <<"</p>", NL>>,
                        !.inList = FALSE]

RECURSIVE htmlLines(_, _)
htmlLines(st, lines) ==
    IF lines = <<>> THEN st ELSE htmlLines(htmlLine(st, Head(lines)), Tail(lines))

\* Defined for texts that split; the callers test splitThrows first.
convertMarkdownToHTML(text, agentName, extraContext) ==
    LET st0 == [html |-> htmlHeader(agentName, extraContext),
                inList |-> FALSE, listType |-> ""]
        st == htmlLines(st0, Split(text))
    IN  st.html \o (IF st.inList THEN closeList(st.listType) ELSE <<>>) \o htmlFooter

-----------------------------------------------------------------------------
(* addStyledContent: the document body is the sequence of its elements *)

Element(kind, text) == [kind |-> kind, text |-> text]

\* Variant: a blank line is not skipped and becomes an empty paragraph.
styledLineKeepsBlank(body, rawLine) ==
    LET line == Trim(rawLine)
    IN  IF endsWithColon(line) THEN Append(body, Element("HEADING2", line))
        ELSE IF isNumbered(line) THEN Append(body, Element("NUMBER", line))
        ELSE IF startsWithDash(line)
        THEN Append(body, Element("BULLET", stripDash(line)))
        ELSE Append(body, Element("PARAGRAPH", line))

\* Variant: the numbered-list test comes before the heading test.
styledLineNumberFirst(body, rawLine) ==
    LET line == Trim(rawLine)
    IN  IF line = <<>> THEN body
        ELSE IF isNumbered(line) THEN Append(body, Element("NUMBER", line))
        ELSE IF endsWithColon(line) THEN Append(body, Element("HEADING2", line))
        ELSE IF startsWithDash(line)
        THEN Append(body, Element("BULLET", stripDash(line)))
        ELSE Append(body, Element("PARAGRAPH", line))

\* One iteration of lines.forEach in addStyledContent.
styledLine(body, rawLine) ==
    LET line == Trim(rawLine)
    IN  IF line = <<>> THEN body
        ELSE IF endsWithColon(line) THEN Append(body, Element("HEADING2", line))
        ELSE IF isNumbered(line) THEN Append(body, Element("NUMBER", line))
        ELSE IF startsWithDash(line)
        THEN Append(body, Element("BULLET", stripDash(line)))
        ELSE Append(body, Element("PARAGRAPH", line))

RECURSIVE styledLines(_, _)
styledLines(body, lines) ==
    IF lines = <<>> THEN body
    ELSE styledLines(styledLine(body, Head(lines)), Tail(lines))

addStyledContent(body, text) == styledLines(body, Split(text))

\* The body handlePDFOutput builds before rendering: title and two spacers.
titledBody(agentName, extraContext) ==
    <<Element("HEADING1", agentName \o <<" ", "-", " ">> \o extraContext),
      Element("PARAGRAPH", <<" ">>),
      Element("PARAGRAPH", <<" ">>)>>

-----------------------------------------------------------------------------
(* The request, the template sheet and the dispatcher's state *)

VARIABLES
    pc,            \* position of the execution of doGet
    e,             \* e.parameter of the request
    agentName,     \* doGet/runAgent locals
    extraContext,
    outputFormat,
    data,          \* sheet.getDataRange().getValues()
    basePrompt,
    fullPrompt,
    fetched,       \* what the completion call produced
    advisorText,
    htmlContent,
    body,          \* body of the transient document
    doc,           \* the transient document: "none", "live" or "trashed"
    outbox,        \* messages MailApp.sendEmail accepted
    calls,         \* calls made to the services, in order, with their outcome
    log,           \* Logger.log lines
    responses      \* what doGet returned

\* The state of one execution of doGet.
back == <<pc, e, agentName, extraContext, outputFormat, data, basePrompt,
          fullPrompt, fetched, advisorText, htmlContent, body, doc, outbox,
          calls, log, responses>>

\* The page of the front end (src/unnamed/part_000).
VARIABLES
    fpc,               \* position of the submit handler: "idle" or the await it is at
    panel,             \* what responseOutput holds
    connectionStatus,  \* text of the connection status
    submitDisabled,    \* submitBtn.disabled
    agentChecked,      \* whether an agent radio button is checked
    agentDefault,      \* whether the page's markup checks one by default
    outcome,           \* how the latest call to the dispatcher ended
    requestsSent,      \* number of fetch calls issued
    submits,           \* number of submit events handled
    alerts,            \* the alerts shown, in order
    downloads          \* the clicks on downloadPdfBtn: panel seen, export started

front == <<fpc, panel, connectionStatus, submitDisabled, agentChecked,
           agentDefault, outcome, requestsSent, submits, alerts, downloads>>

\* Executions of handlePDFOutput running side by side, and the Drive they share.
VARIABLES
    rq,      \* per execution: its position and its locals
    drive,   \* the files of the Drive, by id
    sent     \* the messages sent, with their sender and attachment

conc == <<rq, drive, sent>>

vars == <<back, front, conc>>

\* The page as loaded: no submission yet.
FrontIdle ==
    /\ fpc = "idle"
    /\ panel = [kind |-> "start", placeholder |-> TRUE]
    /\ connectionStatus = "initial"
    /\ submitDisabled = FALSE
    /\ agentChecked = FALSE
    /\ agentDefault = FALSE
    /\ outcome = "none"
    /\ requestsSent = 0
    /\ submits = 0
    /\ alerts = <<>>
    /\ downloads = <<>>

\* No concurrent execution under observation.
ConcIdle ==
    /\ rq = <<>>
    /\ drive = <<>>
    /\ sent = <<>>

AgentNames == {Undefined, <<>>, <<"S", "A">>, <<"s", "a">>, <<"C", "T">>}

Contexts == {Undefined, <<"a">>, <<"<", "b">>}

Formats == {Undefined, <<"p", "d", "f">>, <<"H", "T", "M", "L">>,
            <<"E", "m", "a", "i", "l">>, <<"X", "M", "L">>}

Requests == [agentname : AgentNames, context : Contexts, outputFormat : Formats]

HeaderRow == <<<<"A", "g", "e", "n", "t">>, <<"P", "r", "o", "m", "p", "t">>>>

\* States of the GTAgents sheet: rows of <<name, prompt>> below a header row.
Sheets ==
    { <<HeaderRow>>,
      <<HeaderRow, << <<"S", "A">>, <<"p">> >> >>,
      <<HeaderRow, << <<" ", "s", "a", " ">>, <<"p">> >>, << <<"S", "A">>, <<"q">> >> >>,
      <<HeaderRow, << <<"S", "A">>, <<>> >>, << <<"C", "T">>, <<"q">> >> >>,
      << << <<"C", "T">>, <<"p">> >> >> }

\* A value that is false in a condition: undefined, null or ''.
falsy(v) == v \in {Undefined, Null, <<>>}

Call(api, ok) == [api |-> api, ok |-> ok]

Message(kind, detail) == [kind |-> kind, detail |-> detail]

called(api) == \E i \in 1..Len(calls) : calls[i].api = api

timesCalled(api) == Cardinality({i \in 1..Len(calls) : calls[i].api = api})

failedCall(api) == \E i \in 1..Len(calls) : calls[i].api = api /\ ~calls[i].ok

-----------------------------------------------------------------------------
(* doGet *)

\* doGet returns its JSON response.
respond(r) ==
    /\ responses' = Append(responses, r)
    /\ pc' = "done"

\* Variant: no catch in doGet, the exception ends the execution.
doGetUncaught(message) ==
    /\ pc' = "done"
    /\ UNCHANGED responses

\* The catch of doGet: every exception becomes an error response.
doGetCatch(message) == respond([status |-> "error", message |-> message])

\* e.parameter.context || ''
contextOf(params) == IF falsy(params.context) THEN <<>> ELSE params.context

\* (e.parameter.outputFormat || 'PDF').toUpperCase()
formatOf(params) ==
    toUpperCase(IF falsy(params.outputFormat) THEN <<"P", "D", "F">>
                ELSE params.outputFormat)

\* Variant: no validation of outputFormat.
anyFormat(format) == TRUE

\* ['PDF', 'EMAIL', 'HTML'].includes(outputFormat)
validFormat(format) ==
    format \in {<<"P", "D", "F">>, <<"E", "M", "A", "I", "L">>, <<"H", "T", "M", "L">>}

doGet ==
    /\ pc = "idle"
    /\ UNCHANGED <<front, conc>>
    /\ agentName' = e.agentname
    /\ extraContext' = contextOf(e)
    /\ outputFormat' = formatOf(e)
    /\ IF falsy(e.agentname)
       THEN doGetCatch(Message("Missing agentname parameter", <<>>))
       ELSE IF ~validFormat(formatOf(e))
       THEN doGetCatch(Message("Invalid outputFormat. Must be PDF, HTML, or EMAIL", <<>>))
       ELSE /\ pc' = "runAgent"
            /\ UNCHANGED responses
    /\ UNCHANGED <<e, data, basePrompt, fullPrompt, fetched, advisorText,
                   htmlContent, body, doc, outbox, calls, log>>

-----------------------------------------------------------------------------
(* runAgent *)

\* data[i][0].toString().trim().toLowerCase() === agentName.toLowerCase()
rowMatches(row, name) == toLowerCase(Trim(row[1])) = toLowerCase(name)

\* The loop over the rows below the header: the prompt of the first match.
RECURSIVE findPrompt(_, _, _)
findPrompt(rows, i, name) ==
    IF i > Len(rows) THEN Null
    ELSE IF rowMatches(rows[i], name) THEN rows[i][2]
    ELSE findPrompt(rows, i + 1, name)

\* Variant: the lookup result is not tested.
agentNeverMissing(prompt) == FALSE

\* if (!basePrompt)
agentMissing(prompt) == falsy(prompt)

\* basePrompt + '\n\n' + extraContext (null concatenates as "null")
finalPrompt(prompt, context) == prompt \o <<NL, NL>> \o context

runAgent ==
    /\ pc = "runAgent"
    /\ UNCHANGED <<front, conc>>
    /\ \/ /\ calls' = Append(calls, Call("SpreadsheetApp", FALSE))
          /\ doGetCatch(Message("Spreadsheet error", <<>>))
          /\ UNCHANGED <<data, basePrompt, fullPrompt>>
       \/ \E sheet \in Sheets :
            LET prompt == findPrompt(sheet, 2, agentName)
            IN  /\ calls' = Append(calls, Call("SpreadsheetApp", TRUE))
                /\ data' = sheet
                /\ basePrompt' = prompt
                /\ IF agentMissing(prompt)
                   THEN /\ doGetCatch(Message("Agent not found in sheet", agentName))
                        /\ UNCHANGED fullPrompt
                   ELSE /\ fullPrompt' = finalPrompt(prompt, extraContext)
                        /\ pc' = "getApiKey"
                        /\ UNCHANGED responses
    /\ UNCHANGED <<e, agentName, extraContext, outputFormat, fetched, advisorText,
                   htmlContent, body, doc, outbox, log>>

-----------------------------------------------------------------------------
(* generateAndSendOutput *)

\* The catch of generateAndSendOutput: log and rethrow, up to doGet's catch.
generateCatch(message) ==
    /\ log' = Append(log, "Error for agent")
    /\ doGetCatch(message)

getApiKey ==
    /\ pc = "getApiKey"
    /\ UNCHANGED <<front, conc>>
    /\ calls' = Append(calls, Call("PropertiesService", TRUE))
    /\ \E apiKey \in {Null, <<"k">>} :
         IF falsy(apiKey)
         THEN doGetCatch(Message("Missing OPENROUTER_API_KEY in Script Properties", <<>>))
         ELSE /\ pc' = "fetch"
              /\ UNCHANGED responses
    /\ UNCHANGED <<e, agentName, extraContext, outputFormat, data, basePrompt,
                   fullPrompt, fetched, advisorText, htmlContent, body, doc,
                   outbox, log>>

\* Variant: the EMAIL case falls into the HTML handler.
handlerForEmailAsHtml(format) ==
    CASE format = <<"P", "D", "F">> -> "handlePDFOutput"
      [] format = <<"E", "M", "A", "I", "L">> -> "handleHTMLOutput"
      [] format = <<"H", "T", "M", "L">> -> "handleHTMLOutput"
      [] OTHER -> "default"

\* The switch on outputFormat.
handlerFor(format) ==
    CASE format = <<"P", "D", "F">> -> "handlePDFOutput"
      [] format = <<"E", "M", "A", "I", "L">> -> "handleEmailOutput"
      [] format = <<"H", "T", "M", "L">> -> "handleHTMLOutput"
      [] OTHER -> "default"

\* htmlContent.replaceAll("\n", "")
stripNewlines(html) == ReplaceAll(html, NL, <<>>)

Success(message, format, context) ==
    [status |-> "success", message |-> message, outputFormat |-> format,
     extraContext |-> context]

\* What the completion call can produce: the fetch throws; the body is not
\* JSON; the JSON has no choices[0].message; the message has no content; or
\* the content is a string (possibly empty).
Replies == StringsUpTo(Alphabet, MaxReplyLen)

\* The handlers, from the switch up to their first call to a service.
dispatch(text) ==
    LET handler == handlerFor(outputFormat)
    IN  IF handler = "handlePDFOutput"
        THEN /\ pc' = "createDocument"
             /\ UNCHANGED <<htmlContent, log, responses>>
        ELSE IF handler = "default"
        THEN /\ generateCatch(Message("Invalid output format", <<>>))
             /\ UNCHANGED htmlContent
        ELSE IF splitThrows(text)
        THEN /\ generateCatch(Message("TypeError", <<>>))
             /\ UNCHANGED htmlContent
        ELSE /\ htmlContent' = convertMarkdownToHTML(text, agentName, extraContext)
             /\ IF handler = "handleEmailOutput"
                THEN /\ pc' = "sendHtmlEmail"
                     /\ UNCHANGED <<log, responses>>
                ELSE /\ log' = Append(log, "HTML successfully generated")
                     /\ respond([status |-> "success",
                                 message |-> Message("HTML successfully generated", agentName),
                                 outputFormat |-> <<"H", "T", "M", "L">>,
                                 output |-> stripNewlines(htmlContent'),
                                 extraContext |-> extraContext])

fetchCompletion ==
    /\ pc = "fetch"
    /\ UNCHANGED <<front, conc>>
    /\ \/ /\ calls' = Append(calls, Call("UrlFetchApp.fetch", FALSE))
          /\ fetched' = "fetchThrows"
          /\ generateCatch(Message("Fetch error", <<>>))
          /\ UNCHANGED <<advisorText, htmlContent>>
       \/ /\ calls' = Append(calls, Call("UrlFetchApp.fetch", TRUE))
          /\ \E kind \in {"unparseable", "noChoices"} :
               /\ fetched' = kind
               /\ generateCatch(Message(IF kind = "unparseable" THEN "SyntaxError"
                                        ELSE "TypeError", <<>>))
          /\ UNCHANGED <<advisorText, htmlContent>>
       \/ /\ calls' = Append(calls, Call("UrlFetchApp.fetch", TRUE))
          /\ fetched' = "noContent"
          /\ advisorText' = Undefined
          /\ dispatch(Undefined)
       \/ \E text \in Replies :
            /\ calls' = Append(calls, Call("UrlFetchApp.fetch", TRUE))
            /\ fetched' = "content"
            /\ advisorText' = text
            /\ dispatch(text)
    /\ UNCHANGED <<e, agentName, extraContext, outputFormat, data, basePrompt,
                   fullPrompt, body, doc, outbox>>

-----------------------------------------------------------------------------
(* handlePDFOutput *)

Recipient == "gauravtalele2025@gmail.com"

\* DocumentApp.create, the margins and title, then addStyledContent; a call
\* on the body (setMargin..., insertParagraph, append...) may throw as well.
createDocument ==
    /\ pc = "createDocument"
    /\ UNCHANGED <<front, conc>>
    /\ \/ /\ calls' = Append(calls, Call("DocumentApp.create", FALSE))
          /\ generateCatch(Message("Document error", <<>>))
          /\ UNCHANGED <<doc, body>>
       \/ /\ doc' = "live"
          /\ \/ /\ calls' = calls \o <<Call("DocumentApp.create", TRUE),
                                       Call("Body", FALSE)>>
                /\ body' = titledBody(agentName, extraContext)
                /\ generateCatch(Message("Document error", <<>>))
             \/ /\ calls' = Append(calls, Call("DocumentApp.create", TRUE))
                /\ IF splitThrows(advisorText)
                   THEN /\ body' = titledBody(agentName, extraContext)
                        /\ generateCatch(Message("TypeError", <<>>))
                   ELSE /\ body' = addStyledContent(titledBody(agentName, extraContext),
                                                    advisorText)
                        /\ pc' = "saveAndClose"
                        /\ UNCHANGED <<log, responses>>
    /\ UNCHANGED <<e, agentName, extraContext, outputFormat, data, basePrompt,
                   fullPrompt, fetched, advisorText, htmlContent, outbox>>

\* doc.saveAndClose()
saveAndClose ==
    /\ pc = "saveAndClose"
    /\ UNCHANGED <<front, conc>>
    /\ \/ /\ calls' = Append(calls, Call("saveAndClose", FALSE))
          /\ generateCatch(Message("Document error", <<>>))
       \/ /\ calls' = Append(calls, Call("saveAndClose", TRUE))
          /\ pc' = "convertToPdf"
          /\ UNCHANGED <<log, responses>>
    /\ UNCHANGED <<e, agentName, extraContext, outputFormat, data, basePrompt,
                   fullPrompt, fetched, advisorText, htmlContent, body, doc, outbox>>

\* DriveApp.getFileById(doc.getId()).getAs('application/pdf')
convertToPdf ==
    /\ pc = "convertToPdf"
    /\ UNCHANGED <<front, conc>>
    /\ \/ /\ calls' = Append(calls, Call("getAs", FALSE))
          /\ generateCatch(Message("Drive error", <<>>))
       \/ /\ calls' = Append(calls, Call("getAs", TRUE))
          /\ pc' = "sendPdfEmail"
          /\ UNCHANGED <<log, responses>>
    /\ UNCHANGED <<e, agentName, extraContext, outputFormat, data, basePrompt,
                   fullPrompt, fetched, advisorText, htmlContent, body, doc, outbox>>

\* MailApp.sendEmail with the PDF attached.
sendPdfEmail ==
    /\ pc = "sendPdfEmail"
    /\ UNCHANGED <<front, conc>>
    /\ \/ /\ calls' = Append(calls, Call("MailApp.sendEmail", FALSE))
          /\ generateCatch(Message("Mail error", <<>>))
          /\ UNCHANGED outbox
       \/ /\ calls' = Append(calls, Call("MailApp.sendEmail", TRUE))
          /\ outbox' = Append(outbox, [to |-> Recipient,
                                       subject |-> agentName,
                                       body |-> "Attached is the strategic report",
                                       attachments |-> <<body>>])
          /\ pc' = "trashDocument"
          /\ UNCHANGED <<log, responses>>
    /\ UNCHANGED <<e, agentName, extraContext, outputFormat, data, basePrompt,
                   fullPrompt, fetched, advisorText, htmlContent, body, doc>>

\* The last log line and the success response of handlePDFOutput.
pdfSucceeded(cleanupLine) ==
    /\ log' = log \o <<cleanupLine, "PDF report sent successfully">>
    /\ respond(Success(Message("PDF report sent", agentName),
                       <<"P", "D", "F">>, extraContext))

\* Variant: no try around setTrashed, its exception propagates.
trashFailedRethrows == generateCatch(Message("Drive error", <<>>))

\* The catch around docFile.setTrashed(true): a warning, and on to the success.
trashFailed == pdfSucceeded("Warning: Could not delete temporary doc")

\* docFile.setTrashed(true) in its try, then the success response.
trashDocument ==
    /\ pc = "trashDocument"
    /\ UNCHANGED <<front, conc>>
    /\ \/ /\ calls' = Append(calls, Call("setTrashed", FALSE))
          /\ trashFailed
          /\ UNCHANGED doc
       \/ /\ calls' = Append(calls, Call("setTrashed", TRUE))
          /\ doc' = "trashed"
          /\ pdfSucceeded("Cleaned up temporary Google Doc")
    /\ UNCHANGED <<e, agentName, extraContext, outputFormat, data, basePrompt,
                   fullPrompt, fetched, advisorText, htmlContent, body, outbox>>

-----------------------------------------------------------------------------
(* handleEmailOutput, after convertMarkdownToHTML *)

\* Variant: a failed send is tried once more.
sendHtmlEmailRetry ==
    /\ pc = "sendHtmlEmail"
    /\ UNCHANGED <<front, conc>>
    /\ \/ /\ calls' = calls \o <<Call("MailApp.sendEmail", FALSE),
                                 Call("MailApp.sendEmail", TRUE)>>
       \/ /\ calls' = Append(calls, Call("MailApp.sendEmail", TRUE))
    /\ outbox' = Append(outbox, [to |-> Recipient,
                                 subject |-> agentName,
                                 htmlBody |-> htmlContent])
    /\ log' = Append(log, "HTML email sent successfully")
    /\ respond(Success(Message("HTML email sent", agentName),
                       <<"E", "M", "A", "I", "L">>, extraContext))
    /\ UNCHANGED <<e, agentName, extraContext, outputFormat, data, basePrompt,
                   fullPrompt, fetched, advisorText, htmlContent, body, doc>>

sendHtmlEmail ==
    /\ pc = "sendHtmlEmail"
    /\ UNCHANGED <<front, conc>>
    /\ \/ /\ calls' = Append(calls, Call("MailApp.sendEmail", FALSE))
          /\ generateCatch(Message("Mail error", <<>>))
          /\ UNCHANGED outbox
       \/ /\ calls' = Append(calls, Call("MailApp.sendEmail", TRUE))
          /\ outbox' = Append(outbox, [to |-> Recipient,
                                       subject |-> agentName,
                                       htmlBody |-> htmlContent])
          /\ log' = Append(log, "HTML email sent successfully")
          /\ respond(Success(Message("HTML email sent", agentName),
                             <<"E", "M", "A", "I", "L">>, extraContext))
    /\ UNCHANGED <<e, agentName, extraContext, outputFormat, data, basePrompt,
                   fullPrompt, fetched, advisorText, htmlContent, body, doc>>

-----------------------------------------------------------------------------
(* One request, from its arrival to the response of doGet *)

Init ==
    /\ pc = "idle"
    /\ FrontIdle
    /\ ConcIdle
    /\ e \in Requests
    /\ agentName = Undefined
    /\ extraContext = <<>>
    /\ outputFormat = <<>>
    /\ data = <<>>
    /\ basePrompt = Null
    /\ fullPrompt = <<>>
    /\ fetched = "none"
    /\ advisorText = Undefined
    /\ htmlContent = <<>>
    /\ body = <<>>
    /\ doc = "none"
    /\ outbox = <<>>
    /\ calls = <<>>
    /\ log = <<>>
    /\ responses = <<>>

Next ==
    \/ doGet
    \/ runAgent
    \/ getApiKey
    \/ fetchCompletion
    \/ createDocument
    \/ saveAndClose
    \/ convertToPdf
    \/ sendPdfEmail
    \/ trashDocument
    \/ sendHtmlEmail

Spec == Init /\ [][Next]_vars

\* A started execution runs on: each call to a service returns or throws.
FairSpec == Spec /\ WF_vars(Next)

-----------------------------------------------------------------------------
(* The two renderers applied to every provider text up to MaxTextLen *)

Texts == StringsUpTo(Alphabet, MaxTextLen)

InitRender ==
    /\ pc = "render"
    /\ FrontIdle
    /\ ConcIdle
    /\ e = [agentname |-> <<"S", "A">>, context |-> Undefined,
            outputFormat |-> Undefined]
    /\ agentName = <<"S", "A">>
    /\ extraContext = <<>>
    /\ outputFormat = <<>>
    /\ data = <<>>
    /\ basePrompt = Null
    /\ fullPrompt = <<>>
    /\ fetched = "content"
    /\ advisorText \in Texts
    /\ htmlContent = <<>>
    /\ body = <<>>
    /\ doc = "none"
    /\ outbox = <<>>
    /\ calls = <<>>
    /\ log = <<>>
    /\ responses = <<>>

\* const htmlContent = convertMarkdownToHTML(advisorText, agentName, extraContext)
renderHTML ==
    /\ pc = "render"
    /\ UNCHANGED <<front, conc>>
    /\ htmlContent' = convertMarkdownToHTML(advisorText, agentName, extraContext)
    /\ pc' = "renderDocument"
    /\ UNCHANGED <<e, agentName, extraContext, outputFormat, data, basePrompt,
                   fullPrompt, fetched, advisorText, body, doc, outbox, calls,
                   log, responses>>

\* The title, the spacers and addStyledContent(body, advisorText)
renderDocument ==
    /\ pc = "renderDocument"
    /\ UNCHANGED <<front, conc>>
    /\ body' = addStyledContent(titledBody(agentName, extraContext), advisorText)
    /\ pc' = "rendered"
    /\ UNCHANGED <<e, agentName, extraContext, outputFormat, data, basePrompt,
                   fullPrompt, fetched, advisorText, htmlContent, doc, outbox,
                   calls, log, responses>>

NextRender == renderHTML \/ renderDocument

SpecRender == InitRender /\ [][NextRender]_vars

-----------------------------------------------------------------------------
(* Properties *)

PDF == <<"P", "D", "F">>
HTML == <<"H", "T", "M", "L">>
EMAIL == <<"E", "M", "A", "I", "L">>

\* The request has run to its end.
Terminated == pc = "done"

Failed == Terminated /\ Len(responses) = 1 /\ responses[1].status = "error"

Succeeded == Terminated /\ Len(responses) = 1 /\ responses[1].status = "success"

\* The format the request asks for: upper-cased, PDF when absent.
RequestedFormat ==
    IF e.outputFormat = Undefined THEN PDF ELSE toUpperCase(e.outputFormat)

\* C1: on the PDF path, once the transient document exists, setTrashed has
\* been attempted on it by the time the request reaches its terminal outcome,
\* on every execution, including those where rendering, saving, conversion or
\* the send fails.
C1_DeletionAlwaysAttempted ==
    (Terminated /\ doc # "none") => called("setTrashed")

\* The completion call failed in one of the ways that raise an exception
\* before or inside the handler.
CompletionThrew == fetched \in {"fetchThrows", "unparseable", "noChoices", "noContent"}

\* The completion call returned the empty string as content.
CompletionEmpty == fetched = "content" /\ advisorText = <<>>

\* C2 (as stated): whenever the completion call fails, an empty content
\* included, the request ends as Failed with an error response and nothing
\* was sent.
C2_CompletionFailureOrEmptyFails ==
    (Terminated /\ (CompletionThrew \/ CompletionEmpty))
        => (Failed /\ outbox = <<>>)

\* C2 (amended): when the fetch throws, the body is not parseable or the
\* response has no choices[0].message.content, the request ends as Failed
\* with an error response and nothing was sent, for every format.
C2_CompletionFailureFails ==
    (Terminated /\ CompletionThrew) => (Failed /\ outbox = <<>>)

\* An EMAIL request whose completion had no content reached its end.
C2_Witness ==
    /\ Failed
    /\ fetched = "noContent"
    /\ RequestedFormat = EMAIL

-----------------------------------------------------------------------------
(* Reading the rendered HTML back *)

\* The part of an HTML output between the title line and the footer.
ContentOf(html) ==
    SubSeq(html, Len(htmlHeader(agentName, extraContext)) + 1,
           Len(html) - Len(htmlFooter))

ParseStart ==
    [ok |-> TRUE, list |-> "", items |-> <<>>, elem |-> "", text |-> <<>>,
     blocks |-> <<>>]

Block(tag, items) == [tag |-> tag, items |-> items]

\* One token of markup or text read by a parser that accepts only flat,
\* properly closed lists, headings and paragraphs; ok turns FALSE otherwise.
ParseToken(st, t) ==
    IF ~st.ok THEN st
    ELSE IF t = NL THEN st
    ELSE IF t \in {"<ol>", "<ul>"}
    THEN IF st.list = "" /\ st.elem = ""
         THEN [st EXCEPT !.list = IF t = "<ol>" THEN "ol" ELSE "ul", !.items = <<>>]
         ELSE [st EXCEPT !.ok = FALSE]
    ELSE IF t \in {"</ol>", "</ul>"}
    THEN IF st.elem = "" /\ st.list = (IF t = "</ol>" THEN "ol" ELSE "ul")
         THEN [st EXCEPT !.blocks = Append(@, Block(st.list, st.items)),
                         !.list = "", !.items = <<>>]
         ELSE [st EXCEPT !.ok = FALSE]
    ELSE IF t = "<li>"
    THEN IF st.list # "" /\ st.elem = ""
         THEN [st EXCEPT !.elem = "li", !.text = <<>>]
         ELSE [st EXCEPT !.ok = FALSE]
    ELSE IF t = "</li>"
    THEN IF st.elem = "li"
         THEN [st EXCEPT !.items = Append(@, st.text), !.elem = "", !.text = <<>>]
         ELSE [st EXCEPT !.ok = FALSE]
    ELSE IF t \in {"<h2>", "<p>"}
    THEN IF st.list = "" /\ st.elem = ""
         THEN [st EXCEPT !.elem = IF t = "<h2>" THEN "h2" ELSE "p", !.text = <<>>]
         ELSE [st EXCEPT !.ok = FALSE]
    ELSE IF t \in {"</h2>", "</p>"}
    THEN IF st.elem = (IF t = "</h2>" THEN "h2" ELSE "p")
         THEN [st EXCEPT !.blocks = Append(@, Block(st.elem, <<st.text>>)),
                         !.elem = "", !.text = <<>>]
         ELSE [st EXCEPT !.ok = FALSE]
    ELSE IF st.elem # ""
    THEN [st EXCEPT !.text = Append(@, t)]
    ELSE [st EXCEPT !.ok = FALSE]

RECURSIVE ParseTokens(_, _)
ParseTokens(st, tokens) ==
    IF tokens = <<>> THEN st
    ELSE ParseTokens(ParseToken(st, Head(tokens)), Tail(tokens))

\* The blocks of an HTML content; ok only if nothing is left open at the end.
ParseHtml(tokens) ==
    LET st == ParseTokens(ParseStart, tokens)
    IN  [ok |-> st.ok /\ st.list = "" /\ st.elem = "", blocks |-> st.blocks]

\* The rendered elements of a block sequence, one per heading, item, paragraph.
RECURSIVE ElementsOf(_)
ElementsOf(blocks) ==
    IF blocks = <<>> THEN <<>>
    ELSE LET b == Head(blocks)
             kind == CASE b.tag = "h2" -> "HEADING2"
                       [] b.tag = "p" -> "PARAGRAPH"
                       [] b.tag = "ol" -> "NUMBER"
                       [] b.tag = "ul" -> "BULLET"
         IN  [i \in 1..Len(b.items) |-> Element(kind, b.items[i])]
                 \o ElementsOf(Tail(blocks))

\* The elements of the HTML output, in order.
HtmlElements == ElementsOf(ParseHtml(ContentOf(htmlContent)).blocks)

\* The elements of the document below the title and the two spacers, with
\* their text written as HTML writes it.
DocElements ==
    LET content == SubSeq(body, 4, Len(body))
    IN  [i \in 1..Len(content) |->
            Element(content[i].kind, escapeHtml(content[i].text))]

\* C3: for every provider text the HTML renderer and the document renderer
\* produce the same sequence of elements, each of the same kind and with the
\* same text (for an ordered item, the content after the numeric marker).
C3_RenderersAgree ==
    pc = "rendered" => HtmlElements = DocElements

-----------------------------------------------------------------------------
(* Dispatcher properties *)

\* The request names no agent, or a format other than the three.
InvalidInput ==
    \/ e.agentname \in {Undefined, <<>>}
    \/ RequestedFormat \notin {PDF, HTML, EMAIL}

\* C4: a request without agent name or with an unknown output format ends
\* with an error response and makes no downstream call: no sheet read, no
\* completion call, no document and no email.
C4_InvalidInputNoCalls ==
    InvalidInput =>
        /\ calls = <<>>
        /\ outbox = <<>>
        /\ doc = "none"
        /\ Terminated => Failed

\* A request for agent SA in format XML has been answered.
C4_Witness ==
    /\ Failed
    /\ e.agentname = <<"S", "A">>
    /\ e.outputFormat = <<"X", "M", "L">>

\* The sheet was read and none of its rows below the header carries the
\* requested name, compared as runAgent compares (stored name trimmed, both
\* sides lower-cased).
NoRowMatches ==
    /\ \E i \in 1..Len(calls) : calls[i] = Call("SpreadsheetApp", TRUE)
    /\ \A i \in 2..Len(data) :
          toLowerCase(Trim(data[i][1])) # toLowerCase(e.agentname)

\* C5: when no row matches the requested agent, the request ends with an
\* error response reporting the agent as not found, the completion provider
\* is never called and nothing is delivered.
C5_UnknownAgentNotFound ==
    (Terminated /\ NoRowMatches) =>
        /\ Failed
        /\ responses[1].message = Message("Agent not found in sheet", e.agentname)
        /\ ~called("UrlFetchApp.fetch")
        /\ outbox = <<>>
        /\ doc = "none"

\* Agent CT was looked up in a sheet that has rows, none of them CT's.
C5_Witness ==
    /\ Failed
    /\ NoRowMatches
    /\ Len(data) = 2
    /\ e.agentname = <<"C", "T">>

\* C6: on the PDF path, if the email was sent and the deletion of the
\* transient document then throws, the request still ends as Succeeded with
\* outputFormat PDF; the failure leaves only a warning in the log.
C6_CleanupFailureStillSucceeds ==
    (Terminated /\ RequestedFormat = PDF /\ Len(outbox) = 1
                /\ failedCall("setTrashed")) =>
        /\ Succeeded
        /\ responses[1].outputFormat = PDF
        /\ \E i \in 1..Len(log) : log[i] = "Warning: Could not delete temporary doc"

\* A PDF request ended after setTrashed threw.
C6_Witness ==
    /\ Terminated
    /\ RequestedFormat = PDF
    /\ Len(outbox) = 1
    /\ failedCall("setTrashed")
    /\ doc = "live"

\* C7: a request that ends as Succeeded has performed exactly the delivery
\* of its requested format.  HTML: no email, no document, the rendered HTML
\* in the output field.  EMAIL: one email with an HTML body and no
\* attachment, no document.  PDF: one document, one email with one
\* attachment, no output field.
C7_DeliveryMatchesFormat ==
    Succeeded =>
        LET r == responses[1]
        IN  /\ r.outputFormat = RequestedFormat
            /\ RequestedFormat = HTML =>
                  /\ outbox = <<>>
                  /\ ~called("MailApp.sendEmail")
                  /\ ~called("DocumentApp.create")
                  /\ "output" \in DOMAIN r
                  /\ r.output = ReplaceAll(htmlContent, NL, <<>>)
                  /\ ParseHtml(ContentOf(htmlContent)).ok
            /\ RequestedFormat = EMAIL =>
                  /\ timesCalled("MailApp.sendEmail") = 1
                  /\ Len(outbox) = 1
                  /\ DOMAIN outbox[1] = {"to", "subject", "htmlBody"}
                  /\ outbox[1].htmlBody = htmlContent
                  /\ ~called("DocumentApp.create")
                  /\ "output" \notin DOMAIN r
            /\ RequestedFormat = PDF =>
                  /\ timesCalled("DocumentApp.create") = 1
                  /\ timesCalled("MailApp.sendEmail") = 1
                  /\ Len(outbox) = 1
                  /\ "htmlBody" \notin DOMAIN outbox[1]
                  /\ Len(outbox[1].attachments) = 1
                  /\ "output" \notin DOMAIN r

\* An EMAIL request has succeeded.
C7_Witness ==
    /\ Succeeded
    /\ RequestedFormat = EMAIL
    /\ Len(outbox) = 1

\* C8: within one request the completion provider is called at most once and
\* the mail service at most once, whatever these calls return; and a request
\* in which one of them failed ends as Failed.
C8_NoRetries ==
    /\ timesCalled("UrlFetchApp.fetch") <= 1
    /\ timesCalled("MailApp.sendEmail") <= 1
    /\ (Terminated /\ (failedCall("UrlFetchApp.fetch")
                       \/ fetched \in {"unparseable", "noChoices"}
                       \/ failedCall("MailApp.sendEmail"))) => Failed

\* A request ended after its one call to the mail service threw.
C8_Witness ==
    /\ Failed
    /\ failedCall("MailApp.sendEmail")
    /\ timesCalled("UrlFetchApp.fetch") = 1

\* C9: every request reaches a terminal outcome, and has then returned
\* exactly one response, whose status is 'success' or 'error'; before that it
\* has returned none.
C9_OneTerminalOutcome ==
    /\ <>Terminated
    /\ [](Terminated => /\ Len(responses) = 1
                        /\ responses[1].status \in {"success", "error"})
    /\ [](~Terminated => responses = <<>>)

\* A request ended in an error raised by the spreadsheet service.
C9_Witness ==
    /\ Failed
    /\ calls = <<Call("SpreadsheetApp", FALSE)>>

-----------------------------------------------------------------------------
(* List blocks of the HTML output *)

\* The kind of a trimmed line: "blank", "h2", "ol", "ul" or "p".
LineKind(line) ==
    IF line = <<>> THEN "blank"
    ELSE IF endsWithColon(line) THEN "h2"
    ELSE IF isNumbered(line) THEN "ol"
    ELSE IF startsWithDash(line) THEN "ul"
    ELSE "p"

Shape(tag, n) == [tag |-> tag, n |-> n]

\* The open list, if any, becomes a block.
Flush(g) ==
    IF g.open = "" THEN g
    ELSE [open |-> "", n |-> 0, out |-> Append(g.out, Shape(g.open, g.n))]

\* The blocks a text stands for: one per heading and paragraph, and one per
\* maximal run of adjacent list items of one kind.
RECURSIVE Grouped(_, _)
Grouped(g, lines) ==
    IF lines = <<>> THEN Flush(g).out
    ELSE LET k == LineKind(Trim(Head(lines)))
             f == Flush(g)
             next == IF k = "blank" THEN f
                     ELSE IF k \in {"h2", "p"}
                     THEN [f EXCEPT !.out = Append(@, Shape(k, 1))]
                     ELSE IF g.open = k THEN [g EXCEPT !.n = @ + 1]
                     ELSE [f EXCEPT !.open = k, !.n = 1]
         IN  Grouped(next, Tail(lines))

ExpectedShape(text) == Grouped([open |-> "", n |-> 0, out |-> <<>>], Split(text))

\* The blocks found in the HTML output, each with its number of entries.
HtmlShape ==
    LET blocks == ParseHtml(ContentOf(htmlContent)).blocks
    IN  [i \in 1..Len(blocks) |-> Shape(blocks[i].tag, Len(blocks[i].items))]

HtmlRendered == pc \in {"renderDocument", "rendered"}

\* C10: the HTML of convertMarkdownToHTML is well formed for every input:
\* lists are flat and closed by the tag of their own kind, every <li> lies in
\* an open list, headings and paragraphs lie outside lists, nothing is open
\* at the end; and its list blocks are the maximal runs of adjacent list-item
\* lines of one kind, so a kind change, a blank line, a heading or a
\* paragraph ends the open list.
C10_ListsMaximalWellFormed ==
    HtmlRendered =>
        /\ ParseHtml(ContentOf(htmlContent)).ok
        /\ HtmlShape = ExpectedShape(advisorText)

\* An ordered list directly followed by an unordered one has been rendered.
C10_Witness ==
    /\ HtmlRendered
    /\ HtmlShape = <<Shape("ol", 1), Shape("ul", 1)>>

-----------------------------------------------------------------------------
(* Line classification *)

\* The element kind each renderer gives a line of kind k.
KindName(k) ==
    CASE k = "h2" -> "HEADING2"
      [] k = "ol" -> "NUMBER"
      [] k = "ul" -> "BULLET"
      [] k = "p" -> "PARAGRAPH"

\* The non-blank lines of a text, trimmed, in order.
RECURSIVE NonBlank(_)
NonBlank(lines) ==
    IF lines = <<>> THEN <<>>
    ELSE (IF Trim(Head(lines)) = <<>> THEN <<>> ELSE <<Trim(Head(lines))>>)
             \o NonBlank(Tail(lines))

\* The kind of every non-blank line, each decided from that line alone.
ExpectedKinds(text) ==
    LET lines == NonBlank(Split(text))
    IN  [i \in 1..Len(lines) |-> KindName(LineKind(lines[i]))]

KindsOf(elements) == [i \in 1..Len(elements) |-> elements[i].kind]

\* C11: both renderers classify every line by the same precedence (blank,
\* then heading for a line ending with ':', then ordered item, then unordered
\* item, then paragraph); every line gets exactly one kind, which does not
\* depend on the lines before it.
C11_ClassificationTotalSamePrecedence ==
    pc = "rendered" =>
        /\ KindsOf(HtmlElements) = ExpectedKinds(advisorText)
        /\ KindsOf(SubSeq(body, 4, Len(body))) = ExpectedKinds(advisorText)

\* A line that ends with ':' and starts with digits and a period, after a
\* list item, has been rendered as a heading by both.
C11_Witness ==
    /\ pc = "rendered"
    /\ Len(Split(advisorText)) = 2
    /\ isNumbered(Trim(Split(advisorText)[2]))
    /\ KindsOf(HtmlElements) = <<"BULLET", "HEADING2">>
    /\ KindsOf(SubSeq(body, 4, Len(body))) = <<"BULLET", "HEADING2">>

-----------------------------------------------------------------------------
(* The renderers applied to texts that hold the five special characters *)

EscapeAlphabet == {"&", "<", ">", "\"", "'", "1", ".", "-", ":"}

InitEscape ==
    /\ pc = "render"
    /\ FrontIdle
    /\ ConcIdle
    /\ e = [agentname |-> <<"S", "A">>, context |-> Undefined,
            outputFormat |-> Undefined]
    /\ agentName = <<"S", "A">>
    /\ extraContext = <<>>
    /\ outputFormat = <<>>
    /\ data = <<>>
    /\ basePrompt = Null
    /\ fullPrompt = <<>>
    /\ fetched = "content"
    /\ advisorText \in StringsUpTo(EscapeAlphabet, MaxEscapeLen)
    /\ htmlContent = <<>>
    /\ body = <<>>
    /\ doc = "none"
    /\ outbox = <<>>
    /\ calls = <<>>
    /\ log = <<>>
    /\ responses = <<>>

SpecEscape == InitEscape /\ [][NextRender]_vars

\* The entity that stands for a character, or the character itself.
EntityOf(c) ==
    CASE c = "&" -> <<"&", "a", "m", "p", ";">>
      [] c = "<" -> <<"&", "l", "t", ";">>
      [] c = ">" -> <<"&", "g", "t", ";">>
      [] c = "\"" -> <<"&", "q", "u", "o", "t", ";">>
      [] c = "'" -> <<"&", "#", "0", "3", "9", ";">>
      [] OTHER -> <<c>>

\* A text with each of its characters written once as its entity.
RECURSIVE EntityText(_)
EntityText(text) ==
    IF text = <<>> THEN <<>> ELSE EntityOf(Head(text)) \o EntityText(Tail(text))

\* The text a line contributes to its block.
SourceText(line) ==
    LET k == LineKind(line)
    IN  IF k = "ol" THEN stripNumber(line)
        ELSE IF k = "ul" THEN stripDash(line)
        ELSE line

TextsOf(elements) == [i \in 1..Len(elements) |-> elements[i].text]

\* C12: in the HTML (and Email) output the text of every heading, list item
\* and paragraph is the source text with each of & < > " ' written as its
\* entity exactly once; none of < > " ' is left literal, and an '&' of an
\* entity is not escaped again.
C12_BlockTextEscapedOnce ==
    HtmlRendered =>
        LET lines == NonBlank(Split(advisorText))
            texts == TextsOf(HtmlElements)
        IN  /\ texts = [i \in 1..Len(lines) |-> EntityText(SourceText(lines[i]))]
            /\ \A i \in 1..Len(texts) : \A j \in 1..Len(texts[i]) :
                  texts[i][j] \notin {"<", ">", "\"", "'"}

\* A list item holding '<' and '&' has been rendered.
C12_Witness ==
    /\ HtmlRendered
    /\ advisorText = <<"-", "<", "&">>
    /\ TextsOf(HtmlElements) = << <<"&", "l", "t", ";", "&", "a", "m", "p", ";">> >>

-----------------------------------------------------------------------------
(* Blank provider texts *)

\* The completion returned a text of empty or whitespace-only lines.
BlankOnly ==
    /\ fetched = "content"
    /\ \A i \in 1..Len(advisorText) : advisorText[i] \in WhiteSpace

\* No call to a service has thrown.
NoCallFailed == \A i \in 1..Len(calls) : calls[i].ok

\* C13: a provider text of blank lines only renders to no block and raises
\* no error: the HTML/Email output is the title line followed by the footer,
\* the document holds the title (and its spacers) and nothing else, and the
\* request ends as Succeeded (the calls to the document, drive and mail
\* services not failing).
C13_BlankTextRendersShell ==
    BlankOnly =>
        /\ htmlContent \in {<<>>, htmlHeader(e.agentname, contextOf(e)) \o htmlFooter}
        /\ body \in {<<>>, titledBody(e.agentname, contextOf(e))}
        /\ (Terminated /\ NoCallFailed) => Succeeded
        /\ Succeeded /\ RequestedFormat = PDF => body # <<>>
        /\ Succeeded /\ RequestedFormat # PDF => htmlContent # <<>>

\* A PDF request whose completion was a line break and a space has succeeded.
C13_Witness ==
    /\ Succeeded
    /\ RequestedFormat = PDF
    /\ advisorText = <<NL, " ">>
    /\ body = titledBody(e.agentname, contextOf(e))

-----------------------------------------------------------------------------
(* Lists of the generated document *)

\* The lists of a document body.  appendListItem is given no list to join
\* and addStyledContent appends nothing for a blank line, so the only
\* boundaries the body can hold are a heading or paragraph between two items,
\* and at most a change of glyph between adjacent items: a list is a run of
\* adjacent list items of one glyph type.
RECURSIVE docLists(_, _)
docLists(g, elements) ==
    IF elements = <<>> THEN Flush(g).out
    ELSE LET k == CASE Head(elements).kind = "NUMBER" -> "ol"
                    [] Head(elements).kind = "BULLET" -> "ul"
                    [] Head(elements).kind = "HEADING2" -> "h2"
                    [] OTHER -> "p"
             f == Flush(g)
             next == IF k \in {"h2", "p"}
                     THEN [f EXCEPT !.out = Append(@, Shape(k, 1))]
                     ELSE IF g.open = k THEN [g EXCEPT !.n = @ + 1]
                     ELSE [f EXCEPT !.open = k, !.n = 1]
         IN  docLists(next, Tail(elements))

\* The blocks of the document below the title and the two spacers.
DocShape ==
    docLists([open |-> "", n |-> 0, out |-> <<>>], SubSeq(body, 4, Len(body)))

\* C17: the lists of the generated document have the boundaries of the HTML
\* output for the same text: items separated by a blank line, or adjacent
\* items of different kinds, lie in different lists.
C17_DocumentListsAsHtml ==
    pc = "rendered" => DocShape = HtmlShape

-----------------------------------------------------------------------------
(* Caller-supplied text in the HTML output *)

\* The position of the first token t of an HTML string (0 if there is none).
RECURSIVE IndexOf(_, _, _)
IndexOf(html, t, i) ==
    IF i > Len(html) THEN 0
    ELSE IF html[i] = t THEN i
    ELSE IndexOf(html, t, i + 1)

\* The text of the title line: what lies between <h1> and </h1>.
TitleOf(html) ==
    SubSeq(html, IndexOf(html, "<h1>", 1) + 1, IndexOf(html, "</h1>", 1) - 1)

\* C18: every caller-supplied text in the HTML/Email output is HTML-escaped,
\* the title line built from agentname and context included: the title is
\* the two values with each of & < > " ' written as its entity.
C18_CallerTextEscaped ==
    htmlContent # <<>> =>
        /\ TitleOf(htmlContent)
              = EntityText(e.agentname \o <<" ", "-", " ">> \o contextOf(e))
        /\ \A i \in 1..Len(TitleOf(htmlContent)) :
              TitleOf(htmlContent)[i] \notin {"<", ">", "\"", "'"}

-----------------------------------------------------------------------------
(* Template lookup *)

\* The rows below the header whose name matches the requested agent.
MatchingRows ==
    {i \in 2..Len(data) : toLowerCase(Trim(data[i][1])) = toLowerCase(e.agentname)}

SheetRead == \E i \in 1..Len(calls) : calls[i] = Call("SpreadsheetApp", TRUE)

FirstMatch == CHOOSE i \in MatchingRows : \A j \in MatchingRows : i <= j

\* C20: whenever a row matches the requested agent name, the lookup yields
\* the base prompt of the first such row, no 'not found' is reported, and the
\* request goes on to the completion call with the prompt basePrompt, blank
\* line, extraContext; also when that base prompt is empty.
C20_MatchingRowIsFound ==
    (Terminated /\ SheetRead /\ MatchingRows # {}) =>
        /\ basePrompt = data[FirstMatch][2]
        /\ responses[1].message.kind # "Agent not found in sheet"
        /\ called("PropertiesService")
        /\ called("UrlFetchApp.fetch") =>
              fullPrompt = data[FirstMatch][2] \o <<NL, NL>> \o contextOf(e)

-----------------------------------------------------------------------------
(* The front end: submit handler, download handler, setLoading *)

MaxSubmits == 2
MaxClicks == 2

\* What responseOutput holds: which markup was assigned to it last, and
\* whether an element of class placeholder-text is in it.  Markup built from
\* a response interpolates text of the response, so it may hold one too.
Panel(kind, placeholder) == [kind |-> kind, placeholder |-> placeholder]

\* element.querySelector('.placeholder-text'), as a truth value.
querySelectorNothing(element) == FALSE

querySelector(element) == element.placeholder

\* setLoading(isLoading): the button's state and the connection status after it.
setLoading(isLoading, status) ==
    [disabled |-> isLoading,
     status |-> IF isLoading THEN "Thinking..." ELSE status]

\* The catch block and the finally block of the submit handler.
submitCatch(how) ==
    /\ \E ph \in BOOLEAN : panel' = Panel("error", ph)
    /\ outcome' = how
    /\ submitDisabled' = setLoading(FALSE, "Error").disabled
    /\ connectionStatus' = setLoading(FALSE, "Error").status
    /\ fpc' = "idle"
    /\ UNCHANGED agentChecked

\* The submit event, up to the call of fetch.
submitHandler ==
    /\ fpc = "idle"
    /\ ~submitDisabled
    /\ submits < MaxSubmits
    /\ submits' = submits + 1
    /\ panel' = Panel("loading", TRUE)
    /\ LET loading == setLoading(TRUE, connectionStatus)
           restored == setLoading(FALSE, loading.status)
       IN  IF ~agentChecked
           THEN /\ alerts' = Append(alerts, "Please select an agent.")
                /\ submitDisabled' = restored.disabled
                /\ connectionStatus' = restored.status
                /\ UNCHANGED <<fpc, requestsSent>>
           ELSE /\ submitDisabled' = loading.disabled
                /\ connectionStatus' = loading.status
                /\ requestsSent' = requestsSent + 1
                /\ fpc' = "fetch"
                /\ UNCHANGED alerts
    /\ UNCHANGED <<agentChecked, agentDefault, outcome, downloads, back, conc>>

\* await fetch(...) settles: rejected, answered with a status that is not ok,
\* or answered ok, and then the handler awaits response.json().
fetchSettles ==
    /\ fpc = "fetch"
    /\ \/ submitCatch("network")
       \/ submitCatch("http")
       \/ /\ fpc' = "json"
          /\ UNCHANGED <<panel, outcome, submitDisabled, connectionStatus,
                         agentChecked>>
    /\ UNCHANGED <<agentDefault, requestsSent, submits, alerts, downloads,
                   back, conc>>

\* await response.json() settles: not JSON, a success of one of the three
\* formats, or anything else, which the handler throws into its own catch.
jsonSettles ==
    /\ fpc = "json"
    /\ \/ submitCatch("json")
       \/ submitCatch("error")
       \/ \E format \in {"HTML", "PDF", "EMAIL"}, ph \in BOOLEAN :
             /\ panel' = Panel(format, ph)
             /\ outcome' = "success"
             /\ agentChecked' = agentDefault
             /\ submitDisabled' = setLoading(FALSE, "Completed").disabled
             /\ connectionStatus' = setLoading(FALSE, "Completed").status
             /\ fpc' = "idle"
    /\ UNCHANGED <<agentDefault, requestsSent, submits, alerts, downloads,
                   back, conc>>

\* A click on downloadPdfBtn.
downloadPdfClick ==
    /\ Len(downloads) < MaxClicks
    /\ IF querySelector(panel)
       THEN /\ alerts' = Append(alerts, "No content to download!")
            /\ downloads' = Append(downloads,
                   [panel |-> panel, alerted |-> TRUE, started |-> FALSE])
       ELSE /\ downloads' = Append(downloads,
                   [panel |-> panel, alerted |-> FALSE, started |-> TRUE])
            /\ UNCHANGED alerts
    /\ UNCHANGED <<fpc, panel, connectionStatus, submitDisabled, agentChecked,
                   agentDefault, outcome, requestsSent, submits, back, conc>>

\* The user checks an agent radio button.
selectAgent ==
    /\ ~agentChecked
    /\ agentChecked' = TRUE
    /\ UNCHANGED <<fpc, panel, connectionStatus, submitDisabled, agentDefault,
                   outcome, requestsSent, submits, alerts, downloads, back, conc>>

\* The page as loaded; what its markup puts in the panel and whether it
\* checks an agent by default is not fixed by the script.
InitFront ==
    /\ pc = "page"
    /\ e = CHOOSE r \in Requests : TRUE
    /\ agentName = Undefined
    /\ extraContext = <<>>
    /\ outputFormat = <<>>
    /\ data = <<>>
    /\ basePrompt = Null
    /\ fullPrompt = <<>>
    /\ fetched = "none"
    /\ advisorText = Undefined
    /\ htmlContent = <<>>
    /\ body = <<>>
    /\ doc = "none"
    /\ outbox = <<>>
    /\ calls = <<>>
    /\ log = <<>>
    /\ responses = <<>>
    /\ ConcIdle
    /\ fpc = "idle"
    /\ \E ph \in BOOLEAN : panel = Panel("start", ph)
    /\ connectionStatus = "initial"
    /\ submitDisabled = FALSE
    /\ agentDefault \in BOOLEAN
    /\ agentChecked = agentDefault
    /\ outcome = "none"
    /\ requestsSent = 0
    /\ submits = 0
    /\ alerts = <<>>
    /\ downloads = <<>>

NextFront ==
    \/ submitHandler
    \/ fetchSettles
    \/ jsonSettles
    \/ downloadPdfClick
    \/ selectAgent

SpecFront == InitFront /\ [][NextFront]_vars

-----------------------------------------------------------------------------
(* Export guard, error display, rejected submission *)

\* C14: no export starts on a click while the panel holds the placeholder:
\* every such click raised an alert and started nothing; so between a
\* submission's placeholder and the response that replaces it none starts.
C14_NoExportOfPlaceholder ==
    \A i \in 1..Len(downloads) :
        downloads[i].panel.placeholder =>
            /\ ~downloads[i].started
            /\ downloads[i].alerted

\* A click during the wait for the dispatcher was refused.
C14_Witness ==
    /\ fpc = "fetch"
    /\ submits = 1
    /\ \E i \in 1..Len(downloads) :
          /\ downloads[i].panel = Panel("loading", TRUE)
          /\ ~downloads[i].started
          /\ downloads[i].alerted

\* C15: the panel shows the hint about CORS and deployment only when the
\* call to the dispatcher itself failed, never for an answer
\* {status:'error', message} of the dispatcher.
C15_HintOnlyForNetworkError ==
    panel.kind = "error" => outcome \in {"network", "http", "json"}

\* The submit handler finishes in this step.
HandlerFinishes ==
    \/ fpc # "idle" /\ fpc' = "idle"
    \/ submits' # submits /\ fpc' = "idle"

\* C19: a submission rejected for want of an agent sends nothing and leaves
\* panel and connection status as they were, with the button enabled; and
\* whenever the handler finishes, the status is not 'Thinking...' and the
\* panel shows no spinner.
C19_RejectedSubmitLeavesUiAlone ==
    [][/\ (submits' # submits /\ ~agentChecked) =>
            /\ requestsSent' = requestsSent
            /\ panel' = panel
            /\ connectionStatus' = connectionStatus
            /\ ~submitDisabled'
       /\ HandlerFinishes =>
            /\ connectionStatus' # "Thinking..."
            /\ panel'.kind # "loading"]_vars

-----------------------------------------------------------------------------
(* handlePDFOutput in executions that run side by side *)

NumRequests == 2

ExecutionIds == 1..NumRequests

\* A file of the Drive; its id is its index.  The last three fields record
\* which executions wrote its body, converted it and trashed it.
File(title, creator) ==
    [title |-> title, creator |-> creator, saved |-> FALSE, trashed |-> FALSE,
     writtenBy |-> {creator}, convertedBy |-> {}, trashedBy |-> {}]

\* DriveApp.getFileById(id) on Drive d: the id of the file that is acted on.
getFileByTitle(d, id) ==
    CHOOSE i \in DOMAIN d :
        /\ d[i].title = d[id].title
        /\ \A j \in DOMAIN d : d[j].title = d[id].title => i <= j

getFileById(d, id) == id

\* The execution's local variables change; nothing of another execution does.
Local(r, changes) == rq' = [rq EXCEPT ![r] = changes @@ rq[r]]

Throws(r) ==
    /\ Local(r, [at |-> "failed"])
    /\ UNCHANGED <<drive, sent>>

\* DocumentApp.create with the title and the content appended to the body.
pdfCreate(r) ==
    /\ rq[r].at = "create"
    /\ \/ Throws(r)
       \/ /\ drive' = Append(drive, File(rq[r].agent \o <<"-Output">>, r))
          /\ Local(r, [at |-> "saveAndClose", doc |-> Len(drive) + 1])
          /\ UNCHANGED sent
    /\ UNCHANGED <<back, front>>

\* doc.saveAndClose().
pdfSaveAndClose(r) ==
    /\ rq[r].at = "saveAndClose"
    /\ \/ Throws(r)
       \/ /\ drive' = [drive EXCEPT ![rq[r].doc].saved = TRUE]
          /\ Local(r, [at |-> "getAs"])
          /\ UNCHANGED sent
    /\ UNCHANGED <<back, front>>

\* DriveApp.getFileById(doc.getId()).getAs('application/pdf').
pdfGetAs(r) ==
    /\ rq[r].at = "getAs"
    /\ \/ Throws(r)
       \/ LET docFile == getFileById(drive, rq[r].doc)
          IN  /\ drive' = [drive EXCEPT ![docFile].convertedBy = @ \cup {r}]
              /\ Local(r, [at |-> "sendEmail", docFile |-> docFile,
                           pdf |-> docFile])
              /\ UNCHANGED sent
    /\ UNCHANGED <<back, front>>

\* MailApp.sendEmail with the PDF attached.
pdfSendEmail(r) ==
    /\ rq[r].at = "sendEmail"
    /\ \/ Throws(r)
       \/ /\ sent' = Append(sent, [sender |-> r, attachment |-> rq[r].pdf])
          /\ Local(r, [at |-> "setTrashed"])
          /\ UNCHANGED drive
    /\ UNCHANGED <<back, front>>

\* docFile.setTrashed(true) in its try block, and the return.
pdfSetTrashed(r) ==
    /\ rq[r].at = "setTrashed"
    /\ \/ /\ Local(r, [at |-> "returned"])
          /\ UNCHANGED drive
       \/ /\ drive' = [drive EXCEPT ![rq[r].docFile].trashed = TRUE,
                                    ![rq[r].docFile].trashedBy = @ \cup {r}]
          /\ Local(r, [at |-> "returned"])
    /\ UNCHANGED <<back, front, sent>>

InitConc ==
    /\ pc = "concurrent"
    /\ e = CHOOSE r \in Requests : TRUE
    /\ agentName = Undefined
    /\ extraContext = <<>>
    /\ outputFormat = <<>>
    /\ data = <<>>
    /\ basePrompt = Null
    /\ fullPrompt = <<>>
    /\ fetched = "none"
    /\ advisorText = Undefined
    /\ htmlContent = <<>>
    /\ body = <<>>
    /\ doc = "none"
    /\ outbox = <<>>
    /\ calls = <<>>
    /\ log = <<>>
    /\ responses = <<>>
    /\ FrontIdle
    /\ \E agents \in [ExecutionIds -> {<<"S", "A">>, <<"C", "T">>}] :
          rq = [r \in ExecutionIds |->
                   [at |-> "create", agent |-> agents[r], doc |-> 0,
                    docFile |-> 0, pdf |-> 0]]
    /\ drive = <<>>
    /\ sent = <<>>

NextConc ==
    \E r \in ExecutionIds :
        \/ pdfCreate(r)
        \/ pdfSaveAndClose(r)
        \/ pdfGetAs(r)
        \/ pdfSendEmail(r)
        \/ pdfSetTrashed(r)

SpecConc == InitConc /\ [][NextConc]_vars

\* C16: under every interleaving each execution touches only the document
\* it created: the file it holds is its own, a file is written, converted
\* and trashed by its creator alone, and every message carries the PDF of
\* the sender's own document; also when the titles are equal.
C16_RequestsIndependent ==
    /\ \A r \in DOMAIN rq :
          /\ rq[r].doc # 0 => drive[rq[r].doc].creator = r
          /\ rq[r].docFile # 0 => rq[r].docFile = rq[r].doc
          /\ \A q \in DOMAIN rq : (q # r /\ rq[r].doc # 0) => rq[q].doc # rq[r].doc
    /\ \A i \in DOMAIN drive :
          /\ drive[i].writtenBy \subseteq {drive[i].creator}
          /\ drive[i].convertedBy \subseteq {drive[i].creator}
          /\ drive[i].trashedBy \subseteq {drive[i].creator}
    /\ \A i \in DOMAIN sent :
          drive[sent[i].attachment].creator = sent[i].sender

\* Two executions for the same agent, both returned, the second to create
\* its document the first to send, each file trashed by its creator.
C16_Witness ==
    /\ rq # <<>>
    /\ rq[1].agent = rq[2].agent
    /\ rq[1].at = "returned" /\ rq[2].at = "returned"
    /\ Len(drive) = 2 /\ drive[1].title = drive[2].title
    /\ drive[1].trashedBy = {drive[1].creator}
    /\ drive[2].trashedBy = {drive[2].creator}
    /\ Len(sent) = 2 /\ sent[1].sender = drive[2].creator

=============================================================================
